---- MODULE Spec2Model ----
(***************************************************************************)
(* A model of the lattice random-walk engine RandomWalker                  *)
(* (src/src/random_walker.py) and of the shared numpy random stream it     *)
(* draws from.                                                             *)
(*                                                                         *)
(* Conventions.                                                            *)
(*  - A position is a TLA+ sequence of integers (a Python tuple).          *)
(*  - A distance np.sqrt(r) is represented by its radicand r, the exact    *)
(*    integer sum of squares the code passes to np.sqrt: sqrt is strictly  *)
(*    increasing on the naturals and sqrt(0) = 0, so equality, order and   *)
(*    zero-ness of distances are those of the radicands.                   *)
(*  - The shared stream np.random is a deterministic generator: its state  *)
(*    is the pair (seed it was last seeded with, number of draws since).   *)
(*    seed 0 stands for a stream the program never seeded (OS entropy),    *)
(*    whose state is unknown: each draw from it may yield any raw value.   *)
(*    The raw value the generator yields at a seeded state is fixed the    *)
(*    first time it is drawn and is the same at every later visit of that  *)
(*    state (tape).                                                        *)
(*  - A list is an object: the list a caller got from track() shows        *)
(*    later appends only if the engine keeps the same object (held.own).   *)
(*  - Python runs one call at a time: while random_walk is inside its      *)
(*    loop (call.active) no other operation can start.                     *)
(***************************************************************************)
EXTENDS Integers, Sequences, FiniteSets, TLC

VARIABLES
    walkers,   \* walker name -> the RandomWalker object bound to it
    rng,       \* state of the shared stream np.random
    tape,      \* raw values the generator yields at seeded states
    call,      \* the random_walk call in progress (its locals)
    last,      \* the last call made and its outcome (what the caller sees)
    hist,      \* per walker: seed it was built with, random_walk calls made
    held,      \* the list a caller got from track() and still holds
    artists,   \* walker name -> its line and markers (self.line, self.markers)
    anim,      \* the animation of run_animation and the figure it saves
    gui        \* the App: the inputs of the run in progress, the figure shown

vars == <<walkers, rng, tape, call, last, hist, held, artists, anim, gui>>

----------------------------------------------------------------------------
(* Bounds of the exploration *)

MaxTrack == 3      \* longest trajectory explored, in entries
RawLevels == 3     \* resolution of one raw draw of the generator
MaxDraws == MaxTrack - 1   \* draws explored after one seeding of the stream

(* Program constants *)

MinDim == 1
MaxDim == 3

Walkers == {"A", "B"}

----------------------------------------------------------------------------
(* Inputs the callers pass *)

Starts == {<<0>>, <<2>>, <<1, -1>>, <<0, 0, 0>>}
StartInputs == Starts \cup {<< >>, <<0, 0, 0, 0>>}
PositionInputs == Starts
StepPositions == {<<2>>, <<1, -1>>, <<0, 0, 0, 0>>}
DimInputs == (MinDim - 2) .. (MaxDim + 1)
SeedInputs == {-1, 0, 1, 2}
PositiveSeeds == {s \in SeedInputs : s > 0}
StepInputs == -1 .. (MaxTrack - 1)

----------------------------------------------------------------------------
(* Tuples and lists *)

RECURSIVE SumSeq(_)
SumSeq(s) == IF s = << >> THEN 0 ELSE Head(s) + SumSeq(Tail(s))

\* zip(a, b): pairs up to the shorter of the two
zip(a, b) ==
    LET n == IF Len(a) < Len(b) THEN Len(a) ELSE Len(b)
    IN  [j \in 1..n |-> <<a[j], b[j]>>]

\* itertools.product(vals, repeat=n): lexicographic, first component slowest
RECURSIVE product(_, _)
product(vals, repeat) ==
    IF repeat = 0 THEN << << >> >>
    ELSE LET rest == product(vals, repeat - 1)
         IN  [e \in 1..(Len(vals) * Len(rest)) |->
                <<vals[((e - 1) \div Len(rest)) + 1]>>
                    \o rest[((e - 1) % Len(rest)) + 1]]

\* list.remove(x): drops the first element equal to x
remove(list, x) ==
    LET i == CHOOSE i \in 1..Len(list) :
                 list[i] = x /\ \A j \in 1..(i - 1) : list[j] # x
    IN  SubSeq(list, 1, i - 1) \o SubSeq(list, i + 1, Len(list))

----------------------------------------------------------------------------
(* RandomWalker: checks, offset catalog, distances *)

_check_valid_dimensionality(ndim) ==
    IF ~(MinDim <= ndim /\ ndim <= MaxDim) THEN "InvalidDimension" ELSE "ok"

_check_valid_position(ndim, position) ==
    IF Len(position) # ndim THEN "InvalidPosition" ELSE "ok"

\* the diagonal catalog with the zero vector left in
diagonal_offsets_keep_zero(ndim) == product(<<-1, 0, 1>>, ndim)

diagonal_offsets(ndim) ==
    remove(product(<<-1, 0, 1>>, ndim), [j \in 1..ndim |-> 0])

\* the axis-aligned catalog enumerated axis by axis (+1 then -1 on each),
\* the order of the variant of the class without diagonal moves
axis_offsets_axis_outer(ndim) ==
    LET dirs == <<1, -1>>
    IN  [e \in 1..(2 * ndim) |->
            LET direction == dirs[((e - 1) % 2) + 1]
                i == (e - 1) \div 2
            IN  [j \in 1..ndim |-> IF (j - 1) # i THEN 0 ELSE direction]]

axis_offsets(ndim) ==
    LET dirs == <<1, -1>>
    IN  [e \in 1..(2 * ndim) |->
            LET direction == dirs[((e - 1) \div ndim) + 1]
                i == (e - 1) % ndim
            IN  [j \in 1..ndim |-> IF (j - 1) # i THEN 0 ELSE direction]]

make_offsets(ndim, allow_diagonals) ==
    IF allow_diagonals THEN diagonal_offsets(ndim) ELSE axis_offsets(ndim)

\* the sum of the differences, not of their squares
sum_sq_diff_unsquared(a, b) == SumSeq([j \in 1..Len(a) |-> a[j] - b[j]])

\* radicand of np.sqrt(np.sum((a - b) ** 2)), a and b of one length
sum_sq_diff(a, b) ==
    SumSeq([j \in 1..Len(a) |-> (a[j] - b[j]) * (a[j] - b[j])])

NoDist == -1

\* distance_from_start without the call of _check_valid_position
distance_from_start_unchecked(self, position) ==
    LET pairs == zip(self.start, position)
    IN  [err |-> "ok",
         val |-> SumSeq([j \in 1..Len(pairs) |->
                    (pairs[j][1] - pairs[j][2]) * (pairs[j][1] - pairs[j][2])])]

distance_from_start(self, position) ==
    LET chk == _check_valid_position(self.ndim, position)
    IN  IF chk # "ok" THEN [err |-> chk, val |-> NoDist]
        ELSE [err |-> "ok", val |-> sum_sq_diff(self.start, position)]

distance_from_origin(self, position) ==
    LET chk == _check_valid_position(self.ndim, position)
    IN  IF chk # "ok" THEN [err |-> chk, val |-> NoDist]
        ELSE [err |-> "ok",
              val |-> sum_sq_diff([j \in 1..self.ndim |-> 0], position)]

\* an entry of track_data is the tuple (position, dist_origin, dist_start)
track(self) == [e \in 1..Len(self.track_data) |-> self.track_data[e][1]]

\* track() handing out a list the engine keeps and appends to
track_returns_kept(self) == [own |-> TRUE, items |-> track(self)]

\* the list object track() returns: the comprehension builds a new list,
\* which no attribute of the engine refers to
track_returns(self) == [own |-> FALSE, items |-> track(self)]

\* rwalker.track_data[-1][2], as the distance histogram reads it
final_distance(self) == self.track_data[Len(self.track_data)][3]

\* np.random.choice(n) at a generator state that yields raw: an index 0..n-1
choice(raw, n) == (raw * n) \div RawLevels

\* random_step moving by twice the offset drawn
random_step_double(self, position, raw) ==
    LET offset == self.offsets[choice(raw, Len(self.offsets)) + 1]
        pairs == zip(position, offset)
    IN  [j \in 1..Len(pairs) |-> pairs[j][1] + 2 * pairs[j][2]]

random_step(self, position, raw) ==
    LET offset == self.offsets[choice(raw, Len(self.offsets)) + 1]
        pairs == zip(position, offset)
    IN  [j \in 1..Len(pairs) |-> pairs[j][1] + pairs[j][2]]

NoWalker ==
    [built |-> FALSE, ndim |-> 0, start |-> << >>, offsets |-> << >>,
     track_data |-> << >>]

\* __init__ that records start without checking its length
init_unchecked_start(start, ndim, allow_diagonals, seed) ==
    LET dimchk == _check_valid_dimensionality(ndim)
    IN  IF dimchk # "ok"
        THEN [err |-> dimchk, self |-> NoWalker, seeded |-> FALSE]
        ELSE [err |-> "ok",
              self |-> [built |-> TRUE, ndim |-> ndim, start |-> start,
                        offsets |-> make_offsets(ndim, allow_diagonals),
                        track_data |->
                            << <<start, sum_sq_diff(start, [j \in 1..Len(start)
                                                               |-> 0]), 0>> >>],
              seeded |-> seed > 0]

\* __init__ that seeds the shared stream whatever the sign of seed
init_seed_unconditional(start, ndim, allow_diagonals, seed) ==
    LET dimchk == _check_valid_dimensionality(ndim)
        half == [NoWalker EXCEPT !.ndim = ndim, !.start = start]
        d0 == distance_from_origin(half, start)
    IN  IF dimchk # "ok"
        THEN [err |-> dimchk, self |-> NoWalker, seeded |-> FALSE]
        ELSE IF d0.err # "ok"
        THEN [err |-> d0.err, self |-> NoWalker, seeded |-> FALSE]
        ELSE [err |-> "ok",
              self |-> [built |-> TRUE, ndim |-> ndim, start |-> start,
                        offsets |-> make_offsets(ndim, allow_diagonals),
                        track_data |-> << <<start, d0.val, 0>> >>],
              seeded |-> TRUE]

\* __init__ recording the two distances of the first entry the other way
\* round
init_first_entry_swapped(start, ndim, allow_diagonals, seed) ==
    LET dimchk == _check_valid_dimensionality(ndim)
        half == [NoWalker EXCEPT !.ndim = ndim, !.start = start]
        d0 == distance_from_origin(half, start)
    IN  IF dimchk # "ok"
        THEN [err |-> dimchk, self |-> NoWalker, seeded |-> FALSE]
        ELSE IF d0.err # "ok"
        THEN [err |-> d0.err, self |-> NoWalker, seeded |-> FALSE]
        ELSE [err |-> "ok",
              self |-> [built |-> TRUE, ndim |-> ndim, start |-> start,
                        offsets |-> make_offsets(ndim, allow_diagonals),
                        track_data |-> << <<start, 0, d0.val>> >>],
              seeded |-> seed > 0]

\* __init__ with the start-length check made before the dimension check
init_position_first(start, ndim, allow_diagonals, seed) ==
    LET half == [NoWalker EXCEPT !.ndim = ndim, !.start = start]
        d0 == distance_from_origin(half, start)
        dimchk == _check_valid_dimensionality(ndim)
    IN  IF d0.err # "ok"
        THEN [err |-> d0.err, self |-> NoWalker, seeded |-> FALSE]
        ELSE IF dimchk # "ok"
        THEN [err |-> dimchk, self |-> NoWalker, seeded |-> FALSE]
        ELSE [err |-> "ok",
              self |-> [built |-> TRUE, ndim |-> ndim, start |-> start,
                        offsets |-> make_offsets(ndim, allow_diagonals),
                        track_data |-> << <<start, d0.val, 0>> >>],
              seeded |-> seed > 0]

\* __init__ that seeds the shared stream before its two checks
init_seed_first(start, ndim, allow_diagonals, seed) ==
    LET dimchk == _check_valid_dimensionality(ndim)
        half == [NoWalker EXCEPT !.ndim = ndim, !.start = start]
        d0 == distance_from_origin(half, start)
    IN  IF dimchk # "ok"
        THEN [err |-> dimchk, self |-> NoWalker, seeded |-> seed > 0]
        ELSE IF d0.err # "ok"
        THEN [err |-> d0.err, self |-> NoWalker, seeded |-> seed > 0]
        ELSE [err |-> "ok",
              self |-> [built |-> TRUE, ndim |-> ndim, start |-> start,
                        offsets |-> make_offsets(ndim, allow_diagonals),
                        track_data |-> << <<start, d0.val, 0>> >>],
              seeded |-> seed > 0]

\* __init__ that never seeds the shared stream
init_never_seeds(start, ndim, allow_diagonals, seed) ==
    LET dimchk == _check_valid_dimensionality(ndim)
        half == [NoWalker EXCEPT !.ndim = ndim, !.start = start]
        d0 == distance_from_origin(half, start)
    IN  IF dimchk # "ok"
        THEN [err |-> dimchk, self |-> NoWalker, seeded |-> FALSE]
        ELSE IF d0.err # "ok"
        THEN [err |-> d0.err, self |-> NoWalker, seeded |-> FALSE]
        ELSE [err |-> "ok",
              self |-> [built |-> TRUE, ndim |-> ndim, start |-> start,
                        offsets |-> make_offsets(ndim, allow_diagonals),
                        track_data |-> << <<start, d0.val, 0>> >>],
              seeded |-> FALSE]

\* RandomWalker.__init__: the error it raises, the object it builds and
\* whether it seeds the shared stream
__init__(start, ndim, allow_diagonals, seed) ==
    LET dimchk == _check_valid_dimensionality(ndim)
        half == [NoWalker EXCEPT !.ndim = ndim, !.start = start]
        d0 == distance_from_origin(half, start)
    IN  IF dimchk # "ok"
        THEN [err |-> dimchk, self |-> NoWalker, seeded |-> FALSE]
        ELSE IF d0.err # "ok"
        THEN [err |-> d0.err, self |-> NoWalker, seeded |-> FALSE]
        ELSE [err |-> "ok",
              self |-> [built |-> TRUE, ndim |-> ndim, start |-> start,
                        offsets |-> make_offsets(ndim, allow_diagonals),
                        track_data |-> << <<start, d0.val, 0>> >>],
              seeded |-> seed > 0]

\* walk_iteration inserting the new entry at the head of the list
walk_iteration_prepend(self, current, raw) ==
    LET new == random_step(self, current, raw)
        dist_origin == distance_from_origin(self, new)
        dist_start == distance_from_start(self, new)
    IN  [err |-> "ok", current |-> new,
         self |-> [self EXCEPT !.track_data =
                       << <<new, dist_origin.val, dist_start.val>> >> \o @]]

\* walk_iteration appending the position before its distances are known
walk_iteration_position_first(self, current, raw) ==
    LET new == random_step(self, current, raw)
    IN  [err |-> "ok", current |-> new,
         self |-> [self EXCEPT !.track_data = Append(@, <<new>>)]]

\* walk_iteration taking the offset it drew out of the catalog (a draw
\* without replacement), as long as another offset is left
walk_iteration_consumes_offset(self, current, raw) ==
    LET e == choice(raw, Len(self.offsets)) + 1
        new == random_step(self, current, raw)
        dist_origin == distance_from_origin(self, new)
        dist_start == distance_from_start(self, new)
        left == IF Len(self.offsets) > 1
                THEN remove(self.offsets, self.offsets[e]) ELSE self.offsets
    IN  [err |-> "ok", current |-> new,
         self |-> [self EXCEPT !.offsets = left,
                               !.track_data =
                                   Append(@, <<new, dist_origin.val,
                                               dist_start.val>>)]]

\* walk_iteration appending (position, dist_start, dist_origin)
walk_iteration_start_first(self, current, raw) ==
    LET new == random_step(self, current, raw)
        dist_origin == distance_from_origin(self, new)
        dist_start == distance_from_start(self, new)
    IN  [err |-> "ok", current |-> new,
         self |-> [self EXCEPT !.track_data =
                       Append(@, <<new, dist_start.val, dist_origin.val>>)]]

\* walk_iteration that steps and measures but never appends
walk_iteration_noappend(self, current, raw) ==
    [err |-> "ok", current |-> random_step(self, current, raw), self |-> self]

\* one iteration of the loop of random_walk from position current
walk_iteration(self, current, raw) ==
    LET new == random_step(self, current, raw)
        dist_origin == distance_from_origin(self, new)
        dist_start == distance_from_start(self, new)
    IN  IF dist_origin.err # "ok" THEN [err |-> dist_origin.err,
                                        current |-> new, self |-> self]
        ELSE IF dist_start.err # "ok" THEN [err |-> dist_start.err,
                                            current |-> new, self |-> self]
        ELSE [err |-> "ok", current |-> new,
              self |-> [self EXCEPT !.track_data =
                            Append(@, <<new, dist_origin.val,
                                        dist_start.val>>)]]

\* the position random_walk starts stepping from
walk_origin(self) == self.start

----------------------------------------------------------------------------
(* The shared stream np.random *)

NoRaw == -1
Unseeded == 0

\* the generator can yield raw at its present state
CanDraw(raw) ==
    /\ rng.k < MaxDraws
    /\ (rng.seed > 0 /\ tape[rng.seed][rng.k] # NoRaw)
          => raw = tape[rng.seed][rng.k]

\* the generator yields raw and moves on; the state of a stream the
\* program never seeded is unknown before and after
Drawn(raw) ==
    IF rng.seed > 0
    THEN /\ rng' = [rng EXCEPT !.k = @ + 1]
         /\ tape' = [tape EXCEPT ![rng.seed][rng.k] = raw]
    ELSE UNCHANGED <<rng, tape>>

----------------------------------------------------------------------------
(* State machine *)

NoCall == [active |-> FALSE, w |-> "A", nstep |-> 0, i |-> 0, current |-> << >>]

NoLast ==
    [op |-> "none", w |-> "A", err |-> "ok", ndim |-> 0, pos |-> << >>,
     diag |-> FALSE, seed |-> 0, n |-> 0,
     ret_pos |-> << >>, ret_dist |-> NoDist, ret_track |-> << >>]

\* seed, diag: the seed and the allow_diagonals flag the walker was built
\* with; ncalls: random_walk calls made
\* on it (0, 1, or 2 for two and more); asked: steps asked of it over all
\* those calls
NoHist == [seed |-> 0, diag |-> FALSE, ncalls |-> 0, asked |-> 0]

\* taken: a caller holds a list returned by w.track(); own, items: that
\* list as track() returned it; asked: steps asked of w until then
NoHeld ==
    [taken |-> FALSE, w |-> "A", own |-> FALSE, items |-> << >>, asked |-> 0]

\* the frame argument of plot_track: None, or the frame number n
NoFrame == [given |-> FALSE, n |-> 0]

\* self.line and self.markers of a walker: whether each exists, the axes
\* the line was created on, the positions each displays; nlines, nmarkers:
\* artists created for the walker so far; frame: the frame argument of the
\* latest plot_track call
NoArtists ==
    [line |-> FALSE, markers |-> FALSE, ax |-> "none", nlines |-> 0,
     nmarkers |-> 0, shown |-> << >>, marked |-> << >>, frame |-> NoFrame]

\* state: "none", "running" (frames left) or "done"; frame: the next frame
\* number; figure: per walker the positions shown in the figure saved
NoAnim ==
    [state |-> "none", rwalkers |-> {}, frame |-> 0, nsteps |-> 0,
     save |-> FALSE, saved |-> FALSE, figure |-> [w \in Walkers |-> << >>]]

\* what eval of the start entry gives: a tuple or a list (items; numeric:
\* every item is an int or a float, else items holds a 0 in the place of
\* each item), an int, or no value at all ("malformed": eval raises
\* SyntaxError)
StartEntry(kind, numeric, items) ==
    [kind |-> kind, numeric |-> numeric, items |-> items]

\* the figure the App shows: none, or the number of walkers in it and the
\* numbers of positions recorded for them
NoFig == [kind |-> "none", nwalkers |-> 0, points |-> {}]

\* the entries of the App (a filename is the sequence of the classes of
\* its characters: "a" alphanumeric, "_" one of space, hyphen and
\* underscore), the state of its handler run_simulations ("idle" or
\* "simulating"), the seed list of the run and the figure shown. Animate
\* and allow_diagonals stay as they are at the start, on and off
NoGui ==
    [ndim |-> 1, start |-> StartEntry("tuple", TRUE, <<0>>), seed_start |-> 1,
     nsteps |-> 1, nwalkers |-> 1, reproducible |-> TRUE, name |-> <<"a">>,
     state |-> "idle", seeds |-> << >>, fig |-> NoFig]

Init ==
    /\ walkers = [w \in Walkers |-> NoWalker]
    /\ rng = [seed |-> Unseeded, k |-> 0]
    /\ tape = [s \in PositiveSeeds |-> [k \in 0..(MaxDraws - 1) |-> NoRaw]]
    /\ call = NoCall
    /\ last = NoLast
    /\ hist = [w \in Walkers |-> NoHist]
    /\ held = NoHeld
    /\ artists = [w \in Walkers |-> NoArtists]
    /\ anim = NoAnim
    /\ gui = NoGui

\* w = RandomWalker(start, ndim, allow_diagonals, seed)
Construct(w, start, ndim, allow_diagonals, seed) ==
    LET r == __init__(start, ndim, allow_diagonals, seed)
    IN  /\ ~call.active
        /\ ~walkers[w].built
        /\ last' = [NoLast EXCEPT !.op = "__init__", !.w = w, !.err = r.err,
                                  !.ndim = ndim, !.pos = start,
                                  !.diag = allow_diagonals, !.seed = seed]
        /\ IF r.err = "ok"
           THEN /\ walkers' = [walkers EXCEPT ![w] = r.self]
                /\ hist' = [hist EXCEPT ![w] = [NoHist EXCEPT !.seed = seed,
                                           !.diag = allow_diagonals]]
           ELSE UNCHANGED <<walkers, hist>>
        /\ rng' = IF r.seeded THEN [seed |-> seed, k |-> 0] ELSE rng
        /\ UNCHANGED <<tape, call, held, artists, anim, gui>>

\* w.random_step(position)
RandomStep(w, position) ==
    /\ ~call.active
    /\ walkers[w].built
    /\ \E raw \in 0..(RawLevels - 1) :
          /\ CanDraw(raw)
          /\ Drawn(raw)
          /\ last' = [NoLast EXCEPT !.op = "random_step", !.w = w,
                                    !.pos = position,
                                    !.ret_pos = random_step(walkers[w],
                                                            position, raw)]
    /\ UNCHANGED <<walkers, call, hist, held, artists, anim, gui>>

\* w.distance_from_start(position)
DistanceFromStart(w, position) ==
    LET r == distance_from_start(walkers[w], position)
    IN  /\ ~call.active
        /\ walkers[w].built
        /\ last' = [NoLast EXCEPT !.op = "distance_from_start", !.w = w,
                                  !.pos = position, !.err = r.err,
                                  !.ret_dist = r.val]
        /\ UNCHANGED <<walkers, rng, tape, call, hist, held, artists, anim,
                       gui>>

\* w.distance_from_origin(position)
DistanceFromOrigin(w, position) ==
    LET r == distance_from_origin(walkers[w], position)
    IN  /\ ~call.active
        /\ walkers[w].built
        /\ last' = [NoLast EXCEPT !.op = "distance_from_origin", !.w = w,
                                  !.pos = position, !.err = r.err,
                                  !.ret_dist = r.val]
        /\ UNCHANGED <<walkers, rng, tape, call, hist, held, artists, anim,
                       gui>>

\* w.track()
Track(w) ==
    /\ ~call.active
    /\ walkers[w].built
    /\ last' = [NoLast EXCEPT !.op = "track", !.w = w,
                              !.ret_track = track(walkers[w])]
    /\ UNCHANGED <<walkers, rng, tape, call, hist, held, artists, anim, gui>>

\* t = w.track(), the caller keeping t
HoldTrack(w) ==
    LET r == track_returns(walkers[w])
    IN  /\ ~call.active
        /\ walkers[w].built
        /\ held' = [taken |-> TRUE, w |-> w, own |-> r.own,
                    items |-> r.items, asked |-> hist[w].asked]
        /\ last' = [NoLast EXCEPT !.op = "track", !.w = w,
                                  !.ret_track = r.items]
        /\ UNCHANGED <<walkers, rng, tape, call, hist, artists, anim, gui>>

Max0(n) == IF n > 0 THEN n ELSE 0

\* w.random_walk(nstep) is entered: current = tuple(self.start)
CallRandomWalk(w, nstep) ==
    /\ ~call.active
    /\ walkers[w].built
    /\ Len(walkers[w].track_data) + Max0(nstep) <= MaxTrack
    /\ rng.k + Max0(nstep) <= MaxDraws
    /\ call' = [active |-> TRUE, w |-> w, nstep |-> nstep, i |-> 0,
                current |-> walk_origin(walkers[w])]
    /\ hist' = [hist EXCEPT ![w].ncalls = IF @ = 0 THEN 1 ELSE 2,
                            ![w].asked = @ + Max0(nstep)]
    /\ last' = [NoLast EXCEPT !.op = "random_walk", !.w = w, !.n = nstep,
                              !.err = "running"]
    /\ UNCHANGED <<walkers, rng, tape, held, artists, anim, gui>>

\* the loop body with track_data one list shared by all instances (a
\* class attribute): the entry shows in every engine built
LoopRandomWalk_shared_list ==
    /\ call.active
    /\ call.i < call.nstep
    /\ \E raw \in 0..(RawLevels - 1) :
          LET r == walk_iteration(walkers[call.w], call.current, raw)
              entry == r.self.track_data[Len(r.self.track_data)]
          IN  /\ CanDraw(raw)
              /\ Drawn(raw)
              /\ walkers' = [v \in Walkers |->
                    IF v = call.w THEN r.self
                    ELSE IF walkers[v].built
                    THEN [walkers[v] EXCEPT !.track_data = Append(@, entry)]
                    ELSE walkers[v]]
              /\ call' = [call EXCEPT !.i = @ + 1, !.current = r.current]
              /\ UNCHANGED last
    /\ UNCHANGED <<hist, held, artists, anim, gui>>

\* the loop running over range(nstep + 1)
LoopRandomWalk_one_more ==
    /\ call.active
    /\ call.i <= call.nstep
    /\ \E raw \in 0..(RawLevels - 1) :
          LET r == walk_iteration(walkers[call.w], call.current, raw)
          IN  /\ CanDraw(raw)
              /\ Drawn(raw)
              /\ walkers' = [walkers EXCEPT ![call.w] = r.self]
              /\ call' = [call EXCEPT !.i = @ + 1, !.current = r.current]
              /\ UNCHANGED last
    /\ UNCHANGED <<hist, held, artists, anim, gui>>

\* one pass through the body of the for loop of random_walk
LoopRandomWalk ==
    /\ call.active
    /\ call.i < call.nstep
    /\ \E raw \in 0..(RawLevels - 1) :
          LET r == walk_iteration(walkers[call.w], call.current, raw)
          IN  /\ CanDraw(raw)
              /\ Drawn(raw)
              /\ walkers' = [walkers EXCEPT ![call.w] = r.self]
              /\ IF r.err = "ok"
                 THEN /\ call' = [call EXCEPT !.i = @ + 1,
                                              !.current = r.current]
                      /\ UNCHANGED last
                 ELSE /\ call' = NoCall
                      /\ last' = [last EXCEPT !.err = r.err]
    /\ UNCHANGED <<hist, held, artists, anim, gui>>

\* range(nstep) is exhausted: random_walk returns None
ReturnRandomWalk ==
    /\ call.active
    /\ ~(call.i < call.nstep)
    /\ call' = NoCall
    /\ last' = [last EXCEPT !.err = "ok"]
    /\ UNCHANGED <<walkers, rng, tape, hist, held, artists, anim, gui>>

----------------------------------------------------------------------------
(* Rendering: RandomWalker.plot_track, run_plot, run_animation and update *)

\* x[:stop] of a Python list
slice_to(x, stop) ==
    LET n == IF stop >= 0 THEN (IF stop < Len(x) THEN stop ELSE Len(x))
             ELSE Max0(Len(x) + stop)
    IN  SubSeq(x, 1, n)

\* plot_track cutting the recorded trajectory itself down to the frame
plot_track_truncates(self, art, ax, frame) ==
    LET axes == IF ax = "none" THEN "own" ELSE ax
        positions == track(self)
        cut == IF frame.given THEN slice_to(positions, frame.n + 1)
               ELSE positions
        lined == IF art.line THEN art
                 ELSE [art EXCEPT !.line = TRUE, !.ax = axes, !.nlines = @ + 1]
        marked == IF self.ndim = 3 \/ lined.markers THEN lined
                  ELSE [lined EXCEPT !.markers = TRUE, !.nmarkers = @ + 1]
    IN  [self |-> [self EXCEPT !.track_data = SubSeq(@, 1, Len(cut))],
         art |-> [marked EXCEPT !.shown = cut,
                                !.marked = IF self.ndim = 3 THEN @ ELSE cut,
                                !.frame = frame]]

\* plot_track cutting at x[:frame]
plot_track_cut_at_frame(self, art, ax, frame) ==
    LET axes == IF ax = "none" THEN "own" ELSE ax
        positions == track(self)
        cut == IF frame.given THEN slice_to(positions, frame.n)
               ELSE positions
        lined == IF art.line THEN art
                 ELSE [art EXCEPT !.line = TRUE, !.ax = axes, !.nlines = @ + 1]
        marked == IF self.ndim = 3 \/ lined.markers THEN lined
                  ELSE [lined EXCEPT !.markers = TRUE, !.nmarkers = @ + 1]
    IN  [self |-> self,
         art |-> [marked EXCEPT !.shown = cut,
                                !.marked = IF self.ndim = 3 THEN @ ELSE cut,
                                !.frame = frame]]

\* self.plot_track(ax, frame): the walker and its artists afterwards. The
\* coordinate lists x, y, z are cut alike, so the cut is made on positions
plot_track(self, art, ax, frame) ==
    LET axes == IF ax = "none" THEN "own" ELSE ax
        positions == track(self)
        cut == IF frame.given THEN slice_to(positions, frame.n + 1)
               ELSE positions
        lined == IF art.line THEN art
                 ELSE [art EXCEPT !.line = TRUE, !.ax = axes, !.nlines = @ + 1]
        marked == IF self.ndim = 3 \/ lined.markers THEN lined
                  ELSE [lined EXCEPT !.markers = TRUE, !.nmarkers = @ + 1]
    IN  [self |-> self,
         art |-> [marked EXCEPT !.shown = cut,
                                !.marked = IF self.ndim = 3 THEN @ ELSE cut,
                                !.frame = frame]]

\* w.plot_track(ax, frame)
PlotTrack(w, ax, frame) ==
    LET r == plot_track(walkers[w], artists[w], ax, frame)
    IN  /\ ~call.active
        /\ walkers[w].built
        /\ walkers' = [walkers EXCEPT ![w] = r.self]
        /\ artists' = [artists EXCEPT ![w] = r.art]
        /\ last' = [NoLast EXCEPT !.op = "plot_track", !.w = w]
        /\ UNCHANGED <<rng, tape, call, hist, held, anim, gui>>

\* every walker of ws plotted on ax at frame
plot_all(ws, ax, frame) ==
    [w \in Walkers |->
        IF w \in ws THEN plot_track(walkers[w], artists[w], ax, frame)
        ELSE [self |-> walkers[w], art |-> artists[w]]]

\* run_plot(rwalkers, ...): every walker plotted whole on new axes
RunPlot(ws) ==
    LET r == plot_all(ws, "plot", NoFrame)
    IN  /\ ~call.active
        /\ ws # {} /\ \A w \in ws : walkers[w].built
        /\ anim.state # "running"
        /\ walkers' = [w \in Walkers |-> r[w].self]
        /\ artists' = [w \in Walkers |-> r[w].art]
        /\ last' = [NoLast EXCEPT !.op = "run_plot"]
        /\ UNCHANGED <<rng, tape, call, hist, held, anim, gui>>

\* run_animation(rwalkers, ndim, nsteps, ...): FuncAnimation is set up with
\* frames=nsteps, that is with the frame numbers 0..nsteps-1
RunAnimation(ws, nsteps, save) ==
    /\ ~call.active
    /\ ws # {} /\ \A w \in ws : walkers[w].built
    /\ anim.state # "running"
    /\ nsteps > 0
    /\ anim' = [NoAnim EXCEPT !.state = "running", !.rwalkers = ws,
                              !.nsteps = nsteps, !.save = save]
    /\ last' = [NoLast EXCEPT !.op = "run_animation", !.n = nsteps]
    /\ UNCHANGED <<walkers, rng, tape, call, hist, held, artists, gui>>

\* update(frame, ...): FuncAnimation calls it with the next frame number
UpdateFrame ==
    LET r == plot_all(anim.rwalkers, "animation", [given |-> TRUE,
                                                   n |-> anim.frame])
        final == anim.frame = anim.nsteps - 1
    IN  /\ ~call.active
        /\ anim.state = "running"
        /\ walkers' = [w \in Walkers |-> r[w].self]
        /\ artists' = [w \in Walkers |-> r[w].art]
        /\ anim' = [anim EXCEPT
                !.frame = @ + 1,
                !.state = IF anim.frame + 1 < anim.nsteps THEN "running"
                          ELSE "done",
                !.saved = final /\ anim.save,
                !.figure = IF final /\ anim.save
                           THEN [w \in Walkers |-> r[w].art.shown] ELSE @]
        /\ last' = [NoLast EXCEPT !.op = "update", !.n = anim.frame]
        /\ UNCHANGED <<rng, tape, call, hist, held, gui>>

----------------------------------------------------------------------------
(* The App: its entries, their validation and its handler run_simulations *)

\* 1 <= ndim <= 3 of an integer entry
_validate_dimensions(ndim) == 1 <= ndim /\ ndim <= 3

\* the check the older App makes: a tuple of numbers of length ndim
_validate_start_strict(start, ndim) ==
    /\ start.kind = "tuple"
    /\ start.numeric
    /\ Len(start.items) = ndim

\* App._validate_start. The test is
\*   not isinstance(start, tuple) and all(...) and len(start) == ndim
\* and its truth is what rejects: a tuple makes the first operand False; a
\* value that is not iterable makes all(...) raise TypeError, which is
\* caught as a rejection, like the SyntaxError of an entry eval cannot read
_validate_start(start, ndim) ==
    IF start.kind = "malformed" THEN FALSE
    ELSE IF start.kind = "tuple" THEN TRUE
    ELSE IF start.kind = "int" THEN FALSE
    ELSE ~(start.numeric /\ Len(start.items) = ndim)

\* an integer entry that is > 0
_validate_positive_int(value) == value > 0

\* ^[a-zA-Z0-9]([a-zA-Z0-9_ -]*[a-zA-Z0-9])?$ over the classes of characters
_validate_filename(name) ==
    /\ Len(name) >= 1
    /\ name[1] = "a" /\ name[Len(name)] = "a"
    /\ \A c \in 1..Len(name) : name[c] \in {"a", "_"}

\* the first validation of run_simulations that fails, or "ok"
validate_all(g) ==
    IF ~_validate_dimensions(g.ndim) THEN "ndim"
    ELSE IF ~_validate_start(g.start, g.ndim) THEN "start"
    ELSE IF ~_validate_positive_int(g.seed_start) THEN "seed_start"
    ELSE IF ~_validate_positive_int(g.nsteps) THEN "nsteps"
    ELSE IF ~_validate_positive_int(g.nwalkers) THEN "nwalkers"
    ELSE IF ~_validate_filename(g.name) THEN "name"
    ELSE "ok"

\* the seed list with the one seed seed_start for every walker
seed_list_one_seed(seed_start, nwalkers, reproducible) ==
    [i \in 1..nwalkers |-> IF reproducible THEN seed_start ELSE -1]

\* seeds of App.run_simulations: element i (from 0) is i + seed_start
seed_list(seed_start, nwalkers, reproducible) ==
    IF reproducible THEN [i \in 1..nwalkers |-> (i - 1) + seed_start]
    ELSE [i \in 1..nwalkers |-> -1]

\* the start entry that change_start_dim writes for ndim
default_start(ndim) == StartEntry("tuple", TRUE, [j \in 1..ndim |-> 0])

\* the walkers of the run in the order they are built
WalkerOrder == <<"A", "B">>

\* walkers built so far in the run
Built == Cardinality({w \in Walkers : walkers[w].built})

\* every walker built has been walked
AllWalked == \A v \in Walkers : walkers[v].built => hist[v].ncalls >= 1

\* a key is released in the ndim entry: change_start_dim
EnterNdim(v) ==
    /\ gui.state = "idle"
    /\ gui' = [gui EXCEPT !.ndim = v,
                          !.start = IF v \in 1..3 THEN default_start(v) ELSE @]
    /\ last' = [NoLast EXCEPT !.op = "enter"]
    /\ UNCHANGED <<walkers, rng, tape, call, hist, held, artists, anim>>

\* the start entry is edited
EnterStart(v) ==
    /\ gui.state = "idle"
    /\ gui' = [gui EXCEPT !.start = v]
    /\ last' = [NoLast EXCEPT !.op = "enter"]
    /\ UNCHANGED <<walkers, rng, tape, call, hist, held, artists, anim>>

\* the entries of seed_start, nsteps and nwalkers are edited
EnterNumbers(seed_start, nsteps, nwalkers) ==
    /\ gui.state = "idle"
    /\ gui' = [gui EXCEPT !.seed_start = IF gui.reproducible THEN seed_start
                                         ELSE @,
                          !.nsteps = nsteps, !.nwalkers = nwalkers]
    /\ last' = [NoLast EXCEPT !.op = "enter"]
    /\ UNCHANGED <<walkers, rng, tape, call, hist, held, artists, anim>>

\* the Reproducible box is ticked or unticked: toggle_seed_entry
ToggleReproducible ==
    /\ gui.state = "idle"
    /\ gui' = [gui EXCEPT !.reproducible = ~@,
                          !.seed_start = IF gui.reproducible THEN 1 ELSE @]
    /\ last' = [NoLast EXCEPT !.op = "enter"]
    /\ UNCHANGED <<walkers, rng, tape, call, hist, held, artists, anim>>

\* the filename entry is edited
EnterName(v) ==
    /\ gui.state = "idle"
    /\ gui' = [gui EXCEPT !.name = v]
    /\ last' = [NoLast EXCEPT !.op = "enter"]
    /\ UNCHANGED <<walkers, rng, tape, call, hist, held, artists, anim>>

\* the start entry loses the focus: _validate_start alone
FocusOutStart ==
    /\ gui.state = "idle"
    /\ last' = [NoLast EXCEPT
            !.op = "_validate_start",
            !.err = IF _validate_start(gui.start, gui.ndim) THEN "True"
                    ELSE "False"]
    /\ UNCHANGED <<walkers, rng, tape, call, hist, held, artists, anim, gui>>

\* Run Simulations is clicked: App.run_simulations as far as the call of
\* run_simulations. A validation that fails ends the handler; after the
\* last, np.random.seed() leaves the stream in a state nobody chose, the
\* seed list is built and the list rwalkers of this run is empty
ClickRun ==
    LET verdict == validate_all(gui)
    IN  /\ gui.state = "idle"
        /\ ~call.active
        /\ last' = [NoLast EXCEPT !.op = "run_simulations", !.err = verdict]
        /\ IF verdict = "ok"
           THEN /\ rng' = [seed |-> Unseeded, k |-> 0]
                /\ walkers' = [w \in Walkers |-> NoWalker]
                /\ hist' = [w \in Walkers |-> NoHist]
                /\ gui' = [gui EXCEPT
                        !.state = "simulating",
                        !.seeds = seed_list(gui.seed_start, gui.nwalkers,
                                            gui.reproducible)]
           ELSE UNCHANGED <<walkers, rng, hist, gui>>
        /\ UNCHANGED <<tape, call, held, artists, anim>>

\* run_simulations builds walker i with seed[i] from eval of the start
\* entry; an exception (a seed list too short, one of the engine, numpy's on
\* an item that is no number) is not a TclError: it leaves the handler, and
\* the walkers built, its locals, are gone
GuiConstruct ==
    LET i == Built
        w == WalkerOrder[i + 1]
        seed == gui.seeds[i + 1]
        r == __init__(gui.start.items, gui.ndim, FALSE, seed)
        err == IF r.err = "ok" /\ ~gui.start.numeric THEN "TypeError"
               ELSE r.err
    IN  /\ gui.state = "simulating"
        /\ ~call.active
        /\ AllWalked
        /\ i < gui.nwalkers
        /\ IF i + 1 > Len(gui.seeds)
           THEN /\ last' = [NoLast EXCEPT !.op = "__init__",
                                          !.err = "IndexError"]
                /\ gui' = [gui EXCEPT !.state = "idle"]
                /\ walkers' = [v \in Walkers |-> NoWalker]
                /\ hist' = [v \in Walkers |-> NoHist]
                /\ UNCHANGED rng
           ELSE /\ last' = [NoLast EXCEPT
                        !.op = "__init__", !.w = w, !.err = err,
                        !.ndim = gui.ndim, !.pos = gui.start.items,
                        !.seed = seed]
                /\ IF err = "ok"
                   THEN /\ walkers' = [walkers EXCEPT ![w] = r.self]
                        /\ hist' = [hist EXCEPT
                                ![w] = [NoHist EXCEPT !.seed = seed]]
                        /\ rng' = IF r.seeded THEN [seed |-> seed, k |-> 0]
                                  ELSE rng
                        /\ UNCHANGED gui
                   ELSE /\ gui' = [gui EXCEPT !.state = "idle"]
                        /\ walkers' = [v \in Walkers |-> NoWalker]
                        /\ hist' = [v \in Walkers |-> NoHist]
                        /\ UNCHANGED rng
        /\ UNCHANGED <<tape, call, held, artists, anim>>

\* run_simulations walks the walker it has just built
GuiWalk ==
    \E w \in Walkers :
        /\ gui.state = "simulating"
        /\ hist[w].ncalls = 0
        /\ CallRandomWalk(w, gui.nsteps)

\* every walker is built and walked: the figure shown is closed, the
\* animation of the new walkers takes its place and the handler returns
GuiShow ==
    /\ gui.state = "simulating"
    /\ ~call.active
    /\ AllWalked
    /\ Built = gui.nwalkers
    /\ gui' = [gui EXCEPT
            !.state = "idle",
            !.fig = [kind |-> "animation", nwalkers |-> Built,
                     points |-> {Len(walkers[w].track_data) :
                                    w \in {v \in Walkers : walkers[v].built}}]]
    /\ walkers' = [v \in Walkers |-> NoWalker]
    /\ hist' = [v \in Walkers |-> NoHist]
    /\ last' = [NoLast EXCEPT !.op = "show"]
    /\ UNCHANGED <<rng, tape, call, held, artists, anim>>

\* one engine and every operation of its interface
Solo == {"A"}

Next ==
    \/ \E w \in Solo, start \in StartInputs, ndim \in DimInputs,
          allow_diagonals \in BOOLEAN, seed \in SeedInputs :
            Construct(w, start, ndim, allow_diagonals, seed)
    \/ \E w \in Solo, position \in StepPositions : RandomStep(w, position)
    \/ \E w \in Solo, position \in PositionInputs :
            DistanceFromStart(w, position)
    \/ \E w \in Solo, position \in PositionInputs :
            DistanceFromOrigin(w, position)
    \/ \E w \in Solo : Track(w)
    \/ \E w \in Solo, nstep \in StepInputs : CallRandomWalk(w, nstep)
    \/ LoopRandomWalk
    \/ ReturnRandomWalk

Spec == Init /\ [][Next]_vars

\* two engines, each built and then walked once, in any order (the pattern
\* of run_simulations, without its fixed order)
PairStarts == {<<2>>, <<1, -1>>}
PairDims == {1, 2}
PairSeeds == {-1, 1, 2}

NextPair ==
    \/ \E w \in Walkers, start \in PairStarts, ndim \in PairDims,
          allow_diagonals \in BOOLEAN, seed \in PairSeeds :
            Construct(w, start, ndim, allow_diagonals, seed)
    \/ \E w \in Walkers, nstep \in StepInputs :
            hist[w].ncalls = 0 /\ CallRandomWalk(w, nstep)
    \/ LoopRandomWalk
    \/ ReturnRandomWalk

SpecPair == Init /\ [][NextPair]_vars

\* one engine whose caller keeps the lists track() returns
NextHold ==
    \/ \E w \in Solo, start \in PairStarts, ndim \in PairDims,
          allow_diagonals \in BOOLEAN, seed \in PairSeeds :
            Construct(w, start, ndim, allow_diagonals, seed)
    \/ \E w \in Solo : HoldTrack(w)
    \/ \E w \in Solo : Track(w)
    \/ \E w \in Solo, nstep \in StepInputs : CallRandomWalk(w, nstep)
    \/ LoopRandomWalk
    \/ ReturnRandomWalk

SpecHold == Init /\ [][NextHold]_vars

\* two engines and every operation of their interface, in any
\* interleaving; each engine is walked once
ShareSeeds == {-1, 1}
SharePositions == {<<2>>}
ShareSteps == {-1, 1}

NextShare ==
    \/ \E w \in Walkers, start \in PairStarts, ndim \in PairDims,
          seed \in ShareSeeds :
            Construct(w, start, ndim, FALSE, seed)
    \/ \E w \in Walkers, position \in SharePositions :
            RandomStep(w, position)
    \/ \E w \in Walkers, position \in SharePositions :
            DistanceFromStart(w, position)
    \/ \E w \in Walkers, position \in SharePositions :
            DistanceFromOrigin(w, position)
    \/ \E w \in Walkers : Track(w)
    \/ \E w \in Walkers, nstep \in ShareSteps :
            hist[w].ncalls = 0 /\ CallRandomWalk(w, nstep)
    \/ LoopRandomWalk
    \/ ReturnRandomWalk

SpecShare == Init /\ [][NextShare]_vars

\* two engines built with any seed (or not built: a dimension out of range,
\* a start of another length), each walked once, in any order
SeedDims == {0, 1, 2}

NextSeed ==
    \/ \E w \in Walkers, start \in PairStarts, ndim \in SeedDims,
          seed \in SeedInputs :
            Construct(w, start, ndim, FALSE, seed)
    \/ \E w \in Walkers, nstep \in StepInputs :
            hist[w].ncalls = 0 /\ CallRandomWalk(w, nstep)
    \/ LoopRandomWalk
    \/ ReturnRandomWalk

SpecSeed == Init /\ [][NextSeed]_vars

\* the pattern of run_simulations: an engine is built and walked at once,
\* before the stream is used for anything else; between two such runs the
\* stream is drawn from at will
ThenWalkSteps == {1, 2}

NextThenWalk ==
    \/ \E w \in Walkers, start \in PairStarts, allow_diagonals \in BOOLEAN,
          seed \in PairSeeds :
            AllWalked /\ Construct(w, start, Len(start), allow_diagonals, seed)
    \/ \E w \in Walkers, nstep \in ThenWalkSteps :
            hist[w].ncalls = 0 /\ CallRandomWalk(w, nstep)
    \/ LoopRandomWalk
    \/ ReturnRandomWalk
    \/ \E w \in Solo, position \in SharePositions :
            AllWalked /\ RandomStep(w, position)

SpecThenWalk == Init /\ [][NextThenWalk]_vars

\* the App: entries edited and validated, Run Simulations clicked, the
\* run it starts
GuiDims == {0, 1, 2}
GuiStarts ==
    {StartEntry("tuple", TRUE, <<0>>), StartEntry("tuple", TRUE, <<0, 0>>),
     StartEntry("tuple", FALSE, <<0>>), StartEntry("list", TRUE, <<0>>),
     StartEntry("int", TRUE, << >>)}
GuiSeedStarts == {0, 1}
GuiSteps == {0, 1}
GuiWalkers == {0, 1, 2}
GuiNames == {<<"a", "_", "a">>, <<"a", "_">>}

NextGui ==
    \/ \E v \in GuiDims : EnterNdim(v)
    \/ \E v \in GuiStarts : EnterStart(v)
    \/ \E seed_start \in GuiSeedStarts, nsteps \in GuiSteps,
          nwalkers \in GuiWalkers :
            EnterNumbers(seed_start, nsteps, nwalkers)
    \/ ToggleReproducible
    \/ \E v \in GuiNames : EnterName(v)
    \/ FocusOutStart
    \/ ClickRun
    \/ GuiConstruct
    \/ GuiWalk
    \/ LoopRandomWalk
    \/ ReturnRandomWalk
    \/ GuiShow

SpecGui == Init /\ [][NextGui]_vars

\* one engine that is built and walked; the interpreter keeps running the
\* call it is in: a loop pass or a return that can be taken is taken
NextWalk ==
    \/ \E w \in Solo, start \in StartInputs, ndim \in DimInputs,
          allow_diagonals \in BOOLEAN, seed \in SeedInputs :
            Construct(w, start, ndim, allow_diagonals, seed)
    \/ \E w \in Solo, nstep \in StepInputs : CallRandomWalk(w, nstep)
    \/ LoopRandomWalk
    \/ ReturnRandomWalk

SpecWalk ==
    /\ Init
    /\ [][NextWalk]_vars
    /\ WF_vars(LoopRandomWalk)
    /\ WF_vars(ReturnRandomWalk)

\* one engine that is built, walked once and rendered: plotted directly,
\* by run_plot and by the frames of run_animation
PlotAxes == {"none", "ax"}
FrameInputs ==
    {NoFrame} \cup {[given |-> TRUE, n |-> f] : f \in -2 .. MaxTrack}

NextPlot ==
    \/ \E w \in Solo, start \in Starts :
            Construct(w, start, Len(start), FALSE, -1)
    \/ \E w \in Solo, nstep \in StepInputs :
            hist[w].ncalls = 0 /\ CallRandomWalk(w, nstep)
    \/ LoopRandomWalk
    \/ ReturnRandomWalk
    \/ \E w \in Solo, ax \in PlotAxes, frame \in FrameInputs :
            PlotTrack(w, ax, frame)
    \/ RunPlot(Solo)
    \/ \E nsteps \in 1 .. (MaxTrack - 1), save \in BOOLEAN :
            RunAnimation(Solo, nsteps, save)
    \/ UpdateFrame

SpecPlot == Init /\ [][NextPlot]_vars

----------------------------------------------------------------------------
(* Properties *)

Idle == ~call.active

\* q is p moved by one offset of the catalog of self
ByOneOffset(self, p, q) ==
    /\ Len(q) = Len(p)
    /\ \E e \in 1..Len(self.offsets) :
          /\ Len(self.offsets[e]) = Len(p)
          /\ \A j \in 1..Len(p) : q[j] = p[j] + self.offsets[e][j]

(* C1: in the trajectory produced by any sequence of random_walk calls on  *)
(* one engine, every two consecutive recorded positions differ by exactly  *)
(* one offset of the engine's catalog (every step starts from the last     *)
(* recorded position).                                                     *)
C1_ConsecutiveByOffset ==
    \A w \in Walkers :
        walkers[w].built =>
            \A e \in 1..(Len(walkers[w].track_data) - 1) :
                ByOneOffset(walkers[w], walkers[w].track_data[e][1],
                            walkers[w].track_data[e + 1][1])

(* C2: two engines built with the same start, ndim, allow_diagonals and    *)
(* the same positive seed, each walked once with the same nstep, hold the  *)
(* same trajectory, whatever the order of the two constructions and the    *)
(* two walks.                                                              *)
C2_SameSeedSameTrajectory ==
    \A a, b \in Walkers :
        ( /\ Idle
          /\ walkers[a].built /\ walkers[b].built
          /\ walkers[a].start = walkers[b].start
          /\ walkers[a].ndim = walkers[b].ndim
          /\ hist[a].diag = hist[b].diag
          /\ hist[a].seed = hist[b].seed /\ hist[a].seed > 0
          /\ hist[a].ncalls = 1 /\ hist[b].ncalls = 1
          /\ hist[a].asked = hist[b].asked )
        => walkers[a].track_data = walkers[b].track_data

(* C3: after random_walk calls asking n1, ..., nk >= 0 steps of a fresh    *)
(* engine the trajectory and track() have exactly 1 + n1 + ... + nk        *)
(* entries (inside a call: less the steps still to run); an engine asked   *)
(* no step, in particular after random_walk(0), has track() = [start].     *)
C3_TrajectoryLength ==
    \A w \in Walkers :
        walkers[w].built =>
            LET togo == IF call.active /\ call.w = w
                        THEN Max0(call.nstep - call.i) ELSE 0
            IN  /\ Len(walkers[w].track_data) = 1 + hist[w].asked - togo
                /\ (last.op = "track" /\ last.w = w) =>
                      /\ Len(last.ret_track) = 1 + hist[w].asked
                      /\ hist[w].asked = 0
                            => last.ret_track = <<walkers[w].start>>

C3_Witness ==
    /\ Idle /\ last.op = "track" /\ walkers[last.w].built
    /\ hist[last.w].ncalls = 2 /\ hist[last.w].asked = 2
    /\ Len(last.ret_track) = 3

(* C4: construction succeeds for every ndim in 1..3 with a start of ndim   *)
(* components and fails with the invalid-dimension error for every other   *)
(* ndim, whatever the start, flag and seed: the dimension is checked       *)
(* before the length of start.                                             *)
C4_DimensionChecked ==
    last.op = "__init__" =>
        /\ (last.ndim \notin 1..3) <=> (last.err = "InvalidDimension")
        /\ (last.ndim \in 1..3 /\ Len(last.pos) = last.ndim)
              => (last.err = "ok" /\ walkers[last.w].built)
        /\ last.err # "ok" => ~walkers[last.w].built

C4_Witness ==
    /\ last.op = "__init__"
    /\ last.ndim = 4 /\ Len(last.pos) = 3
    /\ last.err = "InvalidDimension"

IsDistanceCall == last.op \in {"distance_from_start", "distance_from_origin"}

(* C5 as stated: every construction whose start has not ndim components,   *)
(* and every call of distance_from_start or distance_from_origin with a    *)
(* position of another length than ndim, fails with the invalid-position   *)
(* error.                                                                  *)
C5_AnyLengthMismatch ==
    /\ (last.op = "__init__" /\ Len(last.pos) # last.ndim)
          => last.err = "InvalidPosition"
    /\ (IsDistanceCall /\ Len(last.pos) # walkers[last.w].ndim)
          => last.err = "InvalidPosition"

(* C5 amended: a construction with ndim in 1..3 whose start has not ndim   *)
(* components (for any other ndim the dimension error comes first), and a  *)
(* call of distance_from_start or distance_from_origin with a position of  *)
(* another length than ndim, fail with the invalid-position error; a call  *)
(* that so fails changes no engine.                                        *)
C5_InvalidPosition ==
    /\ [][last'.err = "InvalidPosition" => walkers' = walkers]_vars
    /\ [](
        /\ (last.op = "__init__" /\ last.ndim \in 1..3
                                 /\ Len(last.pos) # last.ndim)
              => (last.err = "InvalidPosition" /\ ~walkers[last.w].built)
        /\ (IsDistanceCall /\ Len(last.pos) # walkers[last.w].ndim)
              => (last.err = "InvalidPosition" /\ last.ret_dist = NoDist)
        /\ (IsDistanceCall /\ Len(last.pos) = walkers[last.w].ndim)
              => (last.err = "ok" /\ last.ret_dist >= 0)
       )

C5_Witness ==
    /\ last.op = "distance_from_start" /\ last.err = "InvalidPosition"
    /\ walkers[last.w].built /\ Len(walkers[last.w].track_data) = 3
    /\ Len(last.pos) > walkers[last.w].ndim

(* C6: random_step rejects a position whose length differs from ndim with  *)
(* the invalid-position error, and a position it returns has as many       *)
(* components as the one it was given.                                     *)
C6_RandomStepChecked ==
    last.op = "random_step" =>
        /\ Len(last.pos) # walkers[last.w].ndim
              => last.err = "InvalidPosition"
        /\ last.err = "ok" => Len(last.ret_pos) = Len(last.pos)

Vectors(d) == [1..d -> {-1, 0, 1}]
ZeroVector(d) == [j \in 1..d |-> 0]
AsSet(list) == {list[e] : e \in 1..Len(list)}
UnitVectors(d) ==
    {[j \in 1..d |-> IF j = axis THEN sign ELSE 0] :
        axis \in 1..d, sign \in {1, -1}}

(* C7: for ndim in 1..3 the catalog of an engine built without diagonals   *)
(* holds exactly the 2*ndim unit vectors (+1 and -1 on each axis), that of *)
(* an engine built with diagonals exactly the 3^ndim - 1 non-zero vectors  *)
(* of {-1,0,1}^ndim; no offset is the zero vector and no offset occurs     *)
(* twice.                                                                  *)
C7_CatalogContent ==
    \A w \in Walkers :
        walkers[w].built =>
            LET d == walkers[w].ndim
                cat == walkers[w].offsets
            IN  /\ d \in 1..3
                /\ Cardinality(AsSet(cat)) = Len(cat)
                /\ ZeroVector(d) \notin AsSet(cat)
                /\ IF hist[w].diag
                   THEN /\ Len(cat) = 3^d - 1
                        /\ AsSet(cat) = Vectors(d) \ {ZeroVector(d)}
                   ELSE /\ Len(cat) = 2 * d
                        /\ AsSet(cat) = UnitVectors(d)

C7_Witness ==
    \E w \in Walkers :
        /\ walkers[w].built /\ walkers[w].ndim = 3 /\ hist[w].diag
        /\ Len(walkers[w].offsets) = 26

\* u comes before v in the lexicographic order
LexLess(u, v) ==
    \E j \in 1..Len(u) :
        u[j] < v[j] /\ \A i \in 1..(j - 1) : u[i] = v[i]

LexicographicCatalog(d, cat) ==
    /\ Len(cat) = 3^d - 1
    /\ \A e \in 1..Len(cat) : cat[e] \in Vectors(d) \ {ZeroVector(d)}
    /\ \A e \in 1..(Len(cat) - 1) : LexLess(cat[e], cat[e + 1])

(* C8 as stated: without diagonals the catalog is enumerated axis by axis  *)
(* with +1 then -1 on each axis, for ndim = 2: (1,0), (-1,0), (0,1),       *)
(* (0,-1); with diagonals it is the lexicographic product {-1,0,1}^ndim    *)
(* less the zero vector.                                                   *)
C8_AxisOuterOrder ==
    \A w \in Walkers :
        walkers[w].built =>
            LET d == walkers[w].ndim
                cat == walkers[w].offsets
            IN  IF hist[w].diag THEN LexicographicCatalog(d, cat)
                ELSE /\ Len(cat) = 2 * d
                     /\ \A e \in 1..Len(cat) :
                           cat[e] = [j \in 1..d |->
                                        IF j # ((e - 1) \div 2) + 1 THEN 0
                                        ELSE IF e % 2 = 1 THEN 1 ELSE -1]
                     /\ d = 2 => cat = << <<1, 0>>, <<-1, 0>>,
                                          <<0, 1>>, <<0, -1>> >>

(* C8 amended: without diagonals the catalog is enumerated direction by    *)
(* direction (+1 then -1) with the axes in order inside each, for ndim = 2 *)
(* (1,0), (0,1), (-1,0), (0,-1); with diagonals it is the lexicographic    *)
(* product less the zero vector. The catalog is a function of ndim and the *)
(* flag alone.                                                             *)
C8_DirectionOuterOrder ==
    \A w \in Walkers :
        walkers[w].built =>
            LET d == walkers[w].ndim
                cat == walkers[w].offsets
            IN  IF hist[w].diag THEN LexicographicCatalog(d, cat)
                ELSE /\ Len(cat) = 2 * d
                     /\ \A e \in 1..Len(cat) :
                           cat[e] = [j \in 1..d |->
                                        IF j # ((e - 1) % d) + 1 THEN 0
                                        ELSE IF e <= d THEN 1 ELSE -1]
                     /\ d = 2 => cat = << <<1, 0>>, <<0, 1>>,
                                          <<-1, 0>>, <<0, -1>> >>

C8_Witness ==
    \E w \in Walkers :
        /\ walkers[w].built /\ walkers[w].ndim = 2 /\ ~hist[w].diag
        /\ walkers[w].offsets[2] = <<0, 1>>

\* squared Euclidean norm of u - v
Dist2(u, v) == SumSeq([j \in 1..Len(u) |-> (u[j] - v[j]) * (u[j] - v[j])])
Norm2(u) == SumSeq([j \in 1..Len(u) |-> u[j] * u[j]])

(* C9: right after construction the trajectory is the single entry         *)
(* (start, norm of start, 0), and that entry stays first, unchanged,       *)
(* whatever is done with the engine afterwards.                            *)
C9_FirstEntry ==
    \A w \in Walkers :
        walkers[w].built =>
            /\ Len(walkers[w].track_data) >= 1
            /\ walkers[w].track_data[1] =
                  <<walkers[w].start, Norm2(walkers[w].start), 0>>
            /\ walkers[w].start = ZeroVector(walkers[w].ndim)
                  => walkers[w].track_data[1][2] = 0
            /\ (last.op = "__init__" /\ last.w = w /\ last.err = "ok")
                  => /\ Len(walkers[w].track_data) = 1
                     /\ walkers[w].start = last.pos

C9_Witness ==
    \E w \in Walkers :
        /\ Idle /\ walkers[w].built
        /\ Len(walkers[w].track_data) = 3
        /\ walkers[w].track_data[1] = << <<2>>, 4, 0 >>

IsPrefix(s, t) == Len(s) <= Len(t) /\ SubSeq(t, 1, Len(s)) = s

(* C11: the trajectory is append-only: over every step of every operation  *)
(* (random_walk, random_step, the two distances, track) the trajectory     *)
(* before the step is a prefix of the trajectory after it, and so is       *)
(* track(); hence the trajectory at any moment is a prefix of the          *)
(* trajectory at any later one: no entry is modified, removed or           *)
(* reordered.                                                              *)
C11_AppendOnly ==
    [][\A w \in Walkers :
          walkers[w].built =>
              /\ walkers'[w].built
              /\ IsPrefix(walkers[w].track_data, walkers'[w].track_data)
              /\ IsPrefix(track(walkers[w]), track(walkers'[w]))]_vars

C11_Witness ==
    \E w \in Walkers :
        /\ Idle /\ last.op = "distance_from_origin" /\ last.w = w
        /\ walkers[w].built /\ hist[w].ncalls = 2
        /\ Len(walkers[w].track_data) = 3

(* C12: offsets, ndim and start of an engine never change once it is       *)
(* built; the catalog is at all times the full one its ndim and flag give, *)
(* and every step, of random_step and of the loop of random_walk, moves by *)
(* an offset of that full catalog.                                         *)
C12_CatalogFixed ==
    /\ [][\A w \in Walkers :
             walkers[w].built =>
                 /\ walkers'[w].offsets = walkers[w].offsets
                 /\ walkers'[w].ndim = walkers[w].ndim
                 /\ walkers'[w].start = walkers[w].start]_vars
    /\ [][(call.active /\ call'.active /\ call'.i = call.i + 1)
             => ByOneOffset(walkers[call.w], call.current, call'.current)]_vars
    /\ [](\A w \in Walkers :
             walkers[w].built =>
                 /\ walkers[w].offsets =
                       make_offsets(walkers[w].ndim, hist[w].diag)
                 /\ Len(walkers[w].offsets) =
                       IF hist[w].diag THEN 3^(walkers[w].ndim) - 1
                       ELSE 2 * walkers[w].ndim
                 /\ (last.op = "random_step" /\ last.w = w) =>
                       \E e \in 1..Len(walkers[w].offsets) :
                           LET pairs == zip(last.pos, walkers[w].offsets[e])
                           IN  last.ret_pos = [j \in 1..Len(pairs) |->
                                                 pairs[j][1] + pairs[j][2]])

\* one call drew the same offset twice running
C12_Witness ==
    \E w \in Walkers :
        /\ Idle /\ walkers[w].built /\ hist[w].ncalls = 1
        /\ track(walkers[w]) = << <<2>>, <<3>>, <<4>> >>
        /\ Len(walkers[w].offsets) = 2

(* C13: every position recorded in the trajectory of a built engine, every *)
(* position track() returns and the position random_walk is stepping from  *)
(* have exactly ndim components.                                           *)
C13_Dimensionality ==
    \A w \in Walkers :
        walkers[w].built =>
            /\ \A e \in 1..Len(walkers[w].track_data) :
                  Len(walkers[w].track_data[e][1]) = walkers[w].ndim
            /\ (last.op = "track" /\ last.w = w) =>
                  \A e \in 1..Len(last.ret_track) :
                      Len(last.ret_track[e]) = walkers[w].ndim
            /\ (call.active /\ call.w = w) =>
                  Len(call.current) = walkers[w].ndim

C13_Witness ==
    /\ last.op = "track" /\ walkers[last.w].built
    /\ walkers[last.w].ndim = 2
    /\ Len(last.ret_track) = 3 /\ Len(last.ret_track[3]) = 2

(* C14: a call random_walk(nstep) with nstep < 0 is rejected with the      *)
(* invalid-step-count error.                                               *)
C14_NegativeRejected ==
    (Idle /\ last.op = "random_walk" /\ last.n < 0)
        => last.err = "InvalidStepCount"

\* what the caller reads in the list it holds
Seen(h) == IF h.own THEN track(walkers[h.w]) ELSE h.items

(* C15: track() returns the first components of the trajectory entries in  *)
(* order, 1 + steps taken so far of them; a call of it changes nothing of  *)
(* the engine or the stream; as long as no step was taken in between it    *)
(* returns a list equal to the one returned before; and a list it returned *)
(* keeps its content through later random_walk calls (of which it stays a  *)
(* prefix of the trajectory's positions).                                  *)
C15_TrackProjection ==
    /\ [][last'.op = "track"
             => UNCHANGED <<walkers, rng, tape, call, hist>>]_vars
    /\ [](last.op = "track" =>
             LET td == walkers[last.w].track_data
             IN  /\ last.ret_track = [e \in 1..Len(td) |-> td[e][1]]
                 /\ Len(last.ret_track) = 1 + hist[last.w].asked
                 /\ ( /\ held.taken /\ held.w = last.w
                      /\ held.asked = hist[last.w].asked )
                       => last.ret_track = held.items)
    /\ [](held.taken =>
             /\ Seen(held) = held.items
             /\ Len(Seen(held)) = 1 + held.asked
             /\ IsPrefix(Seen(held), track(walkers[held.w])))

\* a list was taken, a step was walked, track() was called again
C15_Witness ==
    /\ held.taken /\ Len(held.items) = 2
    /\ Idle /\ last.op = "track" /\ last.w = held.w
    /\ Len(last.ret_track) = 3
    /\ Seen(held) = SubSeq(last.ret_track, 1, 2)

(* C16: a construction that succeeds with a positive seed leaves the       *)
(* shared stream in the state that seed determines (no draw made since     *)
(* seeding, whatever was drawn before, and the draws that follow are those *)
(* that followed every earlier seeding with it); a construction with a     *)
(* seed of 0 or less, and one that fails, leaves the stream as it was.     *)
C16_SeedingRule ==
    /\ [][last'.op = "__init__" =>
             IF last'.err = "ok" /\ last'.seed > 0
             THEN rng' = [seed |-> last'.seed, k |-> 0] /\ tape' = tape
             ELSE rng' = rng /\ tape' = tape]_vars
    /\ [][\A sd \in PositiveSeeds, k \in 0..(MaxDraws - 1) :
             tape[sd][k] # NoRaw => tape'[sd][k] = tape[sd][k]]_vars

\* the stream is seeded again with a seed it has drawn from before
C16_Witness ==
    /\ last.op = "__init__" /\ last.err = "ok" /\ last.seed = 1
    /\ rng = [seed |-> 1, k |-> 0]
    /\ tape[1][0] # NoRaw /\ tape[1][1] # NoRaw
    /\ \E w \in Walkers : w # last.w /\ Len(walkers[w].track_data) = 3

\* the engine a step acts on
Actor == IF call.active THEN call.w ELSE last'.w

(* C17: engines share nothing but the stream: a step of any operation on   *)
(* one engine (construction, random_step, a distance, track, random_walk   *)
(* and each pass of its loop) leaves the trajectory, start, ndim, catalog  *)
(* and history of every other engine unchanged, in every interleaving.     *)
C17_NoSharedState ==
    [][\A b \in Walkers :
          b # Actor => (walkers'[b] = walkers[b] /\ hist'[b] = hist[b])]_vars

C17_Witness ==
    /\ walkers["A"].built /\ walkers["B"].built
    /\ Len(walkers["A"].track_data) = 2
    /\ Len(walkers["B"].track_data) = 1
    /\ last.op = "random_step" /\ last.w = "B"

\* entry is fully formed: a position of ndim components with its own two
\* distances
WellFormed(self, entry) ==
    /\ Len(entry) = 3
    /\ Len(entry[1]) = self.ndim
    /\ entry[2] = Norm2(entry[1])
    /\ entry[3] = Dist2(entry[1], self.start)

(* C18: at every point inside a call random_walk(nstep), after k passes of *)
(* the loop, the trajectory is the entries present before the call plus k  *)
(* entries, every entry fully formed; a pass adds one whole entry at the   *)
(* end or nothing.                                                         *)
C18_PartialProgress ==
    /\ [][call.active =>
             \/ walkers' = walkers
             \/ /\ call'.active /\ call'.i = call.i + 1
                /\ Len(walkers'[call.w].track_data) =
                      Len(walkers[call.w].track_data) + 1
                /\ IsPrefix(walkers[call.w].track_data,
                            walkers'[call.w].track_data)]_vars
    /\ [](call.active =>
             LET self == walkers[call.w]
                 td == self.track_data
                 before == 1 + hist[call.w].asked - Max0(call.nstep)
             IN  /\ call.i <= Max0(call.nstep)
                 /\ Len(td) = before + call.i
                 /\ \A e \in 1..Len(td) : WellFormed(self, td[e])
                 /\ call.i > 0 => td[Len(td)][1] = call.current)

C18_Witness ==
    /\ call.active /\ call.nstep = 2 /\ call.i = 1
    /\ Len(walkers[call.w].track_data) = 2
    /\ WellFormed(walkers[call.w], walkers[call.w].track_data[2])

\* positions of d small integer coordinates
Cube(d) == [1..d -> -1..2]

(* C19: on squared distances: for every position of ndim components both  *)
(* distances are defined and not negative, distance_from_start is 0        *)
(* exactly at start and distance_from_origin is 0 exactly at the zero      *)
(* vector.                                                                 *)
C19_DistanceZero ==
    IsDistanceCall =>
        LET self == walkers[last.w]
        IN  /\ last.err = "ok" =>
                  /\ last.ret_dist >= 0
                  /\ last.op = "distance_from_start" =>
                        (last.ret_dist = 0 <=> last.pos = self.start)
                  /\ last.op = "distance_from_origin" =>
                        (last.ret_dist = 0 <=> last.pos = ZeroVector(self.ndim))
            /\ \A p \in Cube(self.ndim) :
                  LET ds == distance_from_start(self, p)
                      do == distance_from_origin(self, p)
                  IN  /\ ds.err = "ok" /\ do.err = "ok"
                      /\ ds.val >= 0 /\ do.val >= 0
                      /\ ds.val = 0 <=> p = self.start
                      /\ do.val = 0 <=> p = ZeroVector(self.ndim)

C19_Witness ==
    /\ last.op = "distance_from_start" /\ last.err = "ok"
    /\ last.pos = <<1, -1>> /\ walkers[last.w].start = <<1, -1>>
    /\ last.ret_dist = 0
    /\ distance_from_origin(walkers[last.w], last.pos).val = 2

(* C20: a call random_walk(nstep) with nstep >= 0 on a built engine comes  *)
(* to its end, and when it ends it has made exactly nstep passes of the    *)
(* loop and raised no error.                                               *)
C20_WalkTerminates ==
    /\ [][(call.active /\ ~call'.active) =>
             /\ last'.err = "ok"
             /\ call.i = Max0(call.nstep)]_vars
    /\ (call.active /\ call.nstep >= 0)
          ~> (Idle /\ last.op = "random_walk" /\ last.err = "ok")

C20_Witness ==
    /\ Idle /\ last.op = "random_walk" /\ last.err = "ok" /\ last.n = 2
    /\ hist[last.w].ncalls = 1
    /\ Len(walkers[last.w].track_data) = 3

\* the operations that render
RenderOps == {"plot_track", "run_plot", "run_animation", "update"}

(* C21: rendering never changes an engine: a call of plot_track, with a    *)
(* frame or without, on given axes or on none, as many times as wanted,    *)
(* and run_plot, run_animation and every frame of update, leave            *)
(* track_data, offsets, start and ndim (and the stream) as they were; the  *)
(* line and the markers of a walker are each created at most once and the  *)
(* artist created first is the one used ever after (no markers in 3        *)
(* dimensions).                                                            *)
C21_RenderReadOnly ==
    /\ [][last'.op \in RenderOps
             => UNCHANGED <<walkers, rng, tape, hist, call>>]_vars
    /\ [][\A w \in Walkers :
             /\ artists[w].line =>
                   /\ artists'[w].line
                   /\ artists'[w].ax = artists[w].ax
                   /\ artists'[w].nlines = artists[w].nlines
             /\ artists[w].markers =>
                   /\ artists'[w].markers
                   /\ artists'[w].nmarkers = artists[w].nmarkers]_vars
    /\ [](\A w \in Walkers :
             /\ artists[w].nlines = (IF artists[w].line THEN 1 ELSE 0)
             /\ artists[w].nmarkers = (IF artists[w].markers THEN 1 ELSE 0)
             /\ (artists[w].line /\ walkers[w].ndim # 3) => artists[w].markers
             /\ walkers[w].ndim = 3 => ~artists[w].markers)

\* a line made by a direct call is the one the frames of a whole animation
\* have drawn with
C21_Witness ==
    \E w \in Walkers :
        /\ artists[w].line /\ artists[w].ax = "ax" /\ artists[w].nlines = 1
        /\ artists[w].markers
        /\ anim.state = "done" /\ anim.nsteps = 2 /\ w \in anim.rwalkers
        /\ last.op = "update"
        /\ Len(walkers[w].track_data) = 3

\* the first n elements of x
FirstN(x, n) == [e \in 1..n |-> x[e]]

(* C26: right after plot_track(ax, frame=f) with 0 <= f < number of        *)
(* recorded positions, the walker's line (and its markers, in 1 and 2      *)
(* dimensions) display the recorded positions with the indices 0..f, in    *)
(* order, f + 1 of them (all of them when f is beyond the last index);     *)
(* after plot_track with no frame they display the whole trajectory; and   *)
(* a frame f of an animation displays so for every walker animated.        *)
C26_FrameCut ==
    /\ last.op = "plot_track" =>
          LET art == artists[last.w]
              pos == track(walkers[last.w])
              f == art.frame.n
          IN  /\ art.line
              /\ ~art.frame.given => art.shown = pos
              /\ (art.frame.given /\ 0 <= f /\ f < Len(pos))
                    => /\ art.shown = FirstN(pos, f + 1)
                       /\ Len(art.shown) = f + 1
              /\ (art.frame.given /\ f >= Len(pos)) => art.shown = pos
              /\ walkers[last.w].ndim # 3 => art.marked = art.shown
    /\ last.op = "update" =>
          \A w \in anim.rwalkers :
              LET pos == track(walkers[w])
              IN  /\ artists[w].frame = [given |-> TRUE, n |-> last.n]
                  /\ last.n < Len(pos)
                        => artists[w].shown = FirstN(pos, last.n + 1)
    /\ last.op = "run_plot" =>
          \A w \in Walkers :
              walkers[w].built => artists[w].shown = track(walkers[w])

C26_Witness ==
    /\ last.op = "plot_track"
    /\ artists[last.w].frame = [given |-> TRUE, n |-> 1]
    /\ Len(walkers[last.w].track_data) = 3
    /\ artists[last.w].shown = SubSeq(track(walkers[last.w]), 1, 2)

(* C27: when the last frame of an animation with frames 0..nsteps-1 has    *)
(* been drawn, for walkers that each took nsteps steps, the line of every  *)
(* walker displays every recorded position, the final one included, and so *)
(* does the figure saved on that frame.                                    *)
C27_LastFrameComplete ==
    (anim.state = "done" /\ last.op = "update") =>
        \A w \in anim.rwalkers :
            ( /\ hist[w].ncalls = 1 /\ hist[w].asked = anim.nsteps
              /\ Len(walkers[w].track_data) = anim.nsteps + 1 )
            => /\ artists[w].shown = track(walkers[w])
               /\ anim.saved => anim.figure[w] = track(walkers[w])

\* the engine random_walk leaves after passes i+1..n from current, the
\* generator yielding what seed determines
RECURSIVE Replay(_, _, _, _, _)
Replay(self, current, seed, i, n) ==
    IF i >= n THEN self
    ELSE LET r == walk_iteration(self, current, tape[seed][i])
         IN  Replay(r.self, r.current, seed, i + 1, n)

\* w was built with a positive seed and its one walk has returned
SeededRun(w) ==
    /\ walkers[w].built /\ hist[w].seed > 0 /\ hist[w].ncalls = 1
    /\ ~(call.active /\ call.w = w)

(* C28: when every engine is built and then walked at once, before any     *)
(* other use of the stream, the trajectory of an engine built with a       *)
(* positive seed is the one its start, ndim, allow_diagonals, seed and     *)
(* nstep determine: it is what the draws that follow a seeding with that   *)
(* seed give from the start, and two engines with the same five values     *)
(* hold the same trajectory, whatever was built, walked or drawn before.   *)
C28_HistoryIndependent ==
    /\ \A w \in Walkers :
          SeededRun(w) =>
              LET fresh == __init__(walkers[w].start, walkers[w].ndim,
                                    hist[w].diag, hist[w].seed).self
              IN  /\ \A i \in 0..(hist[w].asked - 1) :
                        tape[hist[w].seed][i] # NoRaw
                  /\ walkers[w] = Replay(fresh, fresh.start, hist[w].seed, 0,
                                         hist[w].asked)
    /\ \A a, b \in Walkers :
          ( /\ SeededRun(a) /\ SeededRun(b)
            /\ walkers[a].start = walkers[b].start
            /\ walkers[a].ndim = walkers[b].ndim
            /\ hist[a].diag = hist[b].diag
            /\ hist[a].seed = hist[b].seed
            /\ hist[a].asked = hist[b].asked )
          => walkers[a].track_data = walkers[b].track_data

\* the second engine repeats the first although the stream was drawn from
\* in between
C28_Witness ==
    /\ SeededRun("A") /\ SeededRun("B")
    /\ walkers["A"].start = walkers["B"].start
    /\ hist["A"].diag = hist["B"].diag
    /\ hist["A"].seed = hist["B"].seed
    /\ hist["A"].asked = 1 /\ hist["B"].asked = 1
    /\ tape[hist["A"].seed][1] # NoRaw
    /\ last.op = "random_walk" /\ last.err = "ok"
    /\ walkers["A"].track_data = walkers["B"].track_data

(* C29: a construction that fails (ndim outside 1..3, or a start whose     *)
(* length is not ndim) leaves the shared stream as it was, also when its   *)
(* seed is positive: the stream keeps the seed and the position it had.    *)
C29_FailedInitKeepsStream ==
    [][(last'.op = "__init__" /\ last'.err # "ok")
          => (rng' = rng /\ tape' = tape /\ walkers' = walkers)]_vars

\* a construction with a positive seed failed on its dimension while the
\* stream was part-way through the draws of another seed
C29_Witness ==
    /\ last.op = "__init__" /\ last.err = "InvalidDimension" /\ last.seed = 2
    /\ rng = [seed |-> 1, k |-> 1]
    /\ \E w \in Walkers : w # last.w /\ hist[w].seed = 1

\* |n|
Abs(n) == IF n < 0 THEN -n ELSE n

(* C30: in the trajectory of an engine walked at most once, the entry at   *)
(* index k has every coordinate within k of the start's, no two            *)
(* consecutive positions are equal, and without diagonal moves the sum of  *)
(* the coordinate differences from start has the parity of k.              *)
C30_Displacement ==
    \A w \in Walkers :
        (walkers[w].built /\ hist[w].ncalls <= 1) =>
            LET self == walkers[w]
                pos == track(self)
            IN  \A e \in 1..Len(pos) :
                    LET k == e - 1
                        diff == [j \in 1..self.ndim |->
                                    pos[e][j] - self.start[j]]
                    IN  /\ Len(pos[e]) = self.ndim
                        /\ \A j \in 1..self.ndim : Abs(diff[j]) <= k
                        /\ e > 1 => pos[e] # pos[e - 1]
                        /\ ~hist[w].diag => (SumSeq(diff) + k) % 2 = 0

\* a walk of two steps that went twice the same way
C30_Witness ==
    \E w \in Walkers :
        /\ walkers[w].built /\ hist[w].ncalls = 1 /\ Idle
        /\ ~hist[w].diag /\ walkers[w].ndim = 2
        /\ Len(walkers[w].track_data) = 3
        /\ walkers[w].track_data[3][3] = 4

(* C22: in a run of the App, walker i (from 0) is constructed with the     *)
(* seed seed_start + i when Reproducible is on and with -1 when it is off, *)
(* and the seed list of the run has one seed for each of the nwalkers      *)
(* walkers.                                                                *)
C22_SeedAssignment ==
    /\ [][(gui.state = "simulating" /\ last'.op = "__init__") =>
             /\ last'.err # "IndexError"
             /\ last'.seed = (IF gui.reproducible THEN gui.seed_start + Built
                              ELSE -1)
             /\ last'.err = "ok" =>
                   /\ last'.w = WalkerOrder[Built + 1]
                   /\ hist'[last'.w].seed = last'.seed]_vars
    /\ [](gui.state = "simulating" => Len(gui.seeds) = gui.nwalkers)

\* the second walker of a reproducible run is built with seed_start + 1
C22_Witness ==
    /\ gui.state = "simulating" /\ gui.reproducible /\ gui.seed_start = 1
    /\ last.op = "__init__" /\ last.err = "ok" /\ last.w = "B"
    /\ hist["A"].seed = 1 /\ hist["B"].seed = 2
    /\ rng = [seed |-> 2, k |-> 0]

(* C23: a run of the App that passed the validations with nwalkers >= 1    *)
(* and nsteps >= 1 ends with exactly nwalkers walkers, each with a         *)
(* trajectory of nsteps + 1 entries.                                       *)
C23_RunProducesWalkers ==
    (gui.state = "idle" /\ last.op \in {"__init__", "show"}) =>
        /\ last.op = "show"
        /\ gui.fig.nwalkers = gui.nwalkers
        /\ gui.fig.points = {gui.nsteps + 1}

(* C24: _validate_start returns True exactly when the start entry is a     *)
(* tuple, all of its elements are numbers and its length is the ndim       *)
(* entered; every other entry is rejected with False.                      *)
C24_StartValidated ==
    last.op = "_validate_start" =>
        (last.err = "True" <=> _validate_start_strict(gui.start, gui.ndim))

(* C25: the handler of the App builds walkers only when all validations    *)
(* pass (ndim in 1..3, a valid start, seed_start, nsteps and nwalkers > 0, *)
(* a valid filename); a click that fails one returns with no walker built; *)
(* and no construction of a run of the App ends in the engine's            *)
(* invalid-dimension or invalid-position error.                            *)
C25_ValidationGate ==
    /\ gui.state = "simulating" =>
          /\ _validate_dimensions(gui.ndim)
          /\ _validate_positive_int(gui.seed_start)
          /\ _validate_positive_int(gui.nsteps)
          /\ _validate_positive_int(gui.nwalkers)
          /\ _validate_filename(gui.name)
    /\ (last.op = "run_simulations" /\ last.err # "ok") =>
          (gui.state = "idle" /\ Built = 0)
    /\ last.op = "__init__" =>
          last.err \notin {"InvalidDimension", "InvalidPosition"}

====
